---------------------------- MODULE Spec2Model ----------------------------
(***************************************************************************)
(* Model of apiCall (ruslan-hut/apiCall), the command-line API caller.     *)
(*                                                                         *)
(* The modelled source is src/unnamed/part_002 (program version 1.0.3);    *)
(* src/main.go is the older 1.0.0 copy of the same file.                   *)
(*                                                                         *)
(* Go strings holding UTF-8 text are sequences of code points, strings     *)
(* holding Windows-1251 text are sequences of bytes (0..255).  A CSV file  *)
(* is the sequence of records handed to csv.Writer.Write / returned by     *)
(* csv.Reader.ReadAll, each record a sequence of cells.                    *)
(***************************************************************************)
EXTENDS Integers, Sequences, FiniteSets, TLC

(***************************************************************************)
(* Bounds of the model.                                                    *)
(***************************************************************************)
MaxLen == 3        \* longest value string drawn for the encoding pipeline
MaxPage == 3       \* largest page / totalPage number a server answers with
MaxRequests == 3   \* cap on the number of requests of one run
MaxRecords == 2    \* longest record list drawn for the response materializer

(***************************************************************************)
(* Characters.  Code points and bytes are written in decimal.              *)
(***************************************************************************)
LF == 10
CR == 13
SP == 32
QM == 63           \* '?'
LetterA == 97      \* 'a'
CyrVe == 1042      \* U+0412 CYRILLIC CAPITAL LETTER VE, byte 0xC2 in Windows-1251
CyrZhe == 1046     \* U+0416 CYRILLIC CAPITAL LETTER ZHE, byte 0xC6
Ellipsis == 8230   \* U+2026 HORIZONTAL ELLIPSIS, byte 0x85
Smiley == 9786     \* U+263A, no mapping in Windows-1251
ASCIISub == 26     \* encoding.ASCIISub, the replacement byte of charmap.Windows1251
RuneError == 65533 \* U+FFFD

\* The characters value strings are drawn from.
Alphabet == {LetterA, QM, SP, LF, CR, CyrVe, CyrZhe, Ellipsis, Smiley}

\* unicode.IsSpace
IsSpace(r) ==
    \/ r \in {9, 10, 11, 12, 13, 32, 133, 160}
    \/ r \in {5760, 8232, 8233, 8239, 8287, 12288}
    \/ r \in 8192..8202

\* charmap.Windows1251 encoder table: the byte of a code point, -1 when the
\* code point is outside the repertoire.
Win1251Byte(r) ==
    IF r < 128 THEN r
    ELSE IF r \in 1040..1103 THEN r - 1040 + 192
    ELSE IF r = 1025 THEN 168
    ELSE IF r = 1105 THEN 184
    ELSE IF r = 160 THEN 160
    ELSE IF r = 8230 THEN 133
    ELSE -1

\* charmap.Windows1251 decoder table: the code point of a byte.
Win1251Rune(b) ==
    IF b < 128 THEN b
    ELSE IF b \in 192..255 THEN b - 192 + 1040
    ELSE IF b = 168 THEN 1025
    ELSE IF b = 184 THEN 1105
    ELSE IF b = 160 THEN 160
    ELSE IF b = 133 THEN 8230
    ELSE RuneError

\* encoding.ReplaceUnsupported(charmap.Windows1251.NewEncoder()).String:
\* every code point outside the repertoire becomes the replacement byte.
EncodeReplaceUnsupported(s) ==
    [i \in 1..Len(s) |-> IF Win1251Byte(s[i]) = -1 THEN ASCIISub ELSE Win1251Byte(s[i])]

\* strings.ReplaceAll for a one-character pattern and a replacement string.
ReplaceAll(s, old, new) ==
    LET F[i \in 0..Len(s)] ==
            IF i = 0 THEN <<>>
            ELSE F[i - 1] \o (IF s[i] = old THEN new ELSE <<s[i]>>)
    IN  F[Len(s)]

\* utf8.DecodeRuneInString at position i of a byte string: the code point
\* and its width.  An ill-formed sequence decodes as RuneError of width 1.
IsCont(s, i) == i <= Len(s) /\ s[i] \in 128..191

DecodeRune(s, i) ==
    LET b == s[i] IN
    IF b < 128 THEN [r |-> b, w |-> 1]
    ELSE IF b \in 194..223 /\ IsCont(s, i + 1)
        THEN [r |-> (b - 192) * 64 + (s[i + 1] - 128), w |-> 2]
    ELSE IF /\ b \in 224..239 /\ IsCont(s, i + 1) /\ IsCont(s, i + 2)
            /\ (b = 224 => s[i + 1] >= 160)
            /\ (b = 237 => s[i + 1] <= 159)
        THEN [r |-> (b - 224) * 4096 + (s[i + 1] - 128) * 64 + (s[i + 2] - 128), w |-> 3]
    ELSE [r |-> RuneError, w |-> 1]

\* strings.FieldsFunc(s, unicode.IsSpace): the maximal runs of non-space
\* code points, found by ranging over s as UTF-8.
RECURSIVE FieldsFrom(_, _, _, _)
FieldsFrom(s, i, cur, acc) ==
    IF i > Len(s) THEN (IF cur = <<>> THEN acc ELSE Append(acc, cur))
    ELSE LET d == DecodeRune(s, i) IN
         IF IsSpace(d.r)
         THEN FieldsFrom(s, i + d.w, <<>>, IF cur = <<>> THEN acc ELSE Append(acc, cur))
         ELSE FieldsFrom(s, i + d.w, cur \o SubSeq(s, i, i + d.w - 1), acc)

FieldsFunc(s) == FieldsFrom(s, 1, <<>>, <<>>)

\* strings.Join(elems, " ")
RECURSIVE Join(_)
Join(elems) ==
    IF elems = <<>> THEN <<>>
    ELSE IF Len(elems) = 1 THEN elems[1]
    ELSE elems[1] \o <<SP>> \o Join(Tail(elems))

\* The two steps of the sanitizer in the other order.
SanitizeCollapseFirst(b) == ReplaceAll(Join(FieldsFunc(b)), QM, <<SP>>)

\* The tail of ConvertToWindows1251: '?' to space, whitespace runs to one space.
Sanitize(b) == Join(FieldsFunc(ReplaceAll(b, QM, <<SP>>)))

ConvertToWindows1251(utf8Str) == Sanitize(EncodeReplaceUnsupported(utf8Str))

\* charmap.Windows1251.NewDecoder().String
ConvertToUTF8(win1251) == [i \in 1..Len(win1251) |-> Win1251Rune(win1251[i])]

(***************************************************************************)
(* Values and records of the JSON value model.                             *)
(***************************************************************************)
\* A decoded JSON scalar: a string, a json.Number (kept as its literal) or null.
StrVal(s) == [kind |-> "string", s |-> s]
NumVal(s) == [kind |-> "number", s |-> s]
NullVal == [kind |-> "null", s |-> <<>>]

NilText == <<60, 110, 105, 108, 62>>   \* "<nil>"

\* fmt.Sprintf("%v", v); a key missing from a map reads as nil.
SprintV(v) == IF v.kind = "null" THEN NilText ELSE v.s

\* row[key] of a map[string]interface{}
MapGet(row, key) == IF key \in DOMAIN row THEN row[key] ELSE NullVal

\* One cell of the output file: lines 260-263.
Cell(v) ==
    ConvertToWindows1251(ReplaceAll(ReplaceAll(SprintV(v), LF, <<SP>>), CR, <<>>))

\* All orders a range over a Go map can visit its keys in.
KeyOrders(m) ==
    {h \in [1..Cardinality(DOMAIN m) -> DOMAIN m] :
        \A i, j \in DOMAIN h : i # j => h[i] # h[j]}

\* The rows saveResponse hands to the csv writer for a non-empty record
\* list, when the range over the first record yields the keys as header.
CsvRows(data, header) ==
    <<header>> \o
    [n \in 1..Len(data) |-> [i \in 1..Len(header) |-> Cell(MapGet(data[n], header[i]))]]

(***************************************************************************)
(* URLs.  A URL is valid or not (http.NewRequest and url.Parse reject the  *)
(* same strings) and carries a query, a sequence of <<key, value>> pairs.  *)
(***************************************************************************)
QueryKeys == <<"a", "page", "z">>   \* the query keys of the model, sorted

\* URL.Query, url.Values.Set and url.Values.Encode: the key holds the one value,
\* and the pairs come out sorted by key, the values of a key in their order.
RECURSIVE PairsOf(_, _)
PairsOf(q, key) ==
    IF q = <<>> THEN <<>>
    ELSE (IF q[1][1] = key THEN <<q[1]>> ELSE <<>>) \o PairsOf(Tail(q), key)

\* URL.Query, line 208: url.ParseQuery with its error dropped.  A pair that
\* does not parse is left out: one holding a semicolon (rejected as an
\* "invalid semicolon separator") or an ill-formed percent escape.
IllFormedValues == {"1;2", "%"}
ParseQuery(q) == SelectSeq(q, LAMBDA pair : pair[2] \notin IllFormedValues)

SetAndEncode(q, key, value) ==
    LET parsed == ParseQuery(q)
        Part(k) == IF k = key THEN << <<key, value>> >> ELSE PairsOf(parsed, k)
    IN  Part(QueryKeys[1]) \o Part(QueryKeys[2]) \o Part(QueryKeys[3])

\* Lines 203-211: the URL of the next page.
NextPageUrl(u, nextPage) ==
    [u EXCEPT !.query = SetAndEncode(u.query, "page", ToString(nextPage))]

(***************************************************************************)
(* File names.                                                             *)
(***************************************************************************)
outputFile == "output.csv"
inputFile == "input.csv"
objectFile == "object.csv"

\* fmt.Sprintf("output_%d.csv", nextPage)
PageFile(n) == "output_" \o ToString(n) \o ".csv"

\* Line 405: the names removeFiles deletes.  The names of the model are
\* classified here; HasPrefix "output" and HasSuffix ".csv" hold for exactly
\* the names below.
OutputNames == {outputFile, "output_old.csv", "output_dir.csv"} \cup {PageFile(n) : n \in 0..(MaxPage + 1)}
MatchesOutput(name) == name \in OutputNames

(***************************************************************************)
(* The output directory: whether it exists, and its entries by name.       *)
(* fresh marks a file created by this run.                                 *)
(***************************************************************************)
OldRows == << << <<LetterA>> >> >>
OldFile == [isDir |-> FALSE, rows |-> OldRows, fresh |-> FALSE]
SubDir == [isDir |-> TRUE, rows |-> <<>>, fresh |-> FALSE]

\* A directory left behind by an earlier run, with unrelated entries.
UsedEntries ==
    [n \in {outputFile, "output_old.csv", "data.csv", "output_dir.csv"} |->
        IF n = "output_dir.csv" THEN SubDir ELSE OldFile]
NoEntries == [n \in {} |-> OldFile]

\* os.ReadDir(path): fails on the empty path (os.Open("") is ENOENT) and on
\* a missing directory.
ReadDirOk(path, dir) == path # "" /\ dir.exists

\* os.Create(path + name): fails in a missing directory and on the name of
\* a directory; otherwise the file exists afterwards and is empty.
CreateOk(dir, name) ==
    /\ dir.exists
    /\ ~(name \in DOMAIN dir.files /\ dir.files[name].isDir)

WithFile(dir, name, rows) ==
    [dir EXCEPT !.files =
        [n \in DOMAIN dir.files \cup {name} |->
            IF n = name THEN [isDir |-> FALSE, rows |-> rows, fresh |-> TRUE]
            ELSE dir.files[n]]]

\* Api.removeFiles, lines 396-413.  os.Remove of a listed file succeeds (its
\* failure is logged and the loop goes on, lines 407-409).
RemoveFiles(path, dir) ==
    IF ~ReadDirOk(path, dir) THEN dir
    ELSE [dir EXCEPT !.files =
            [n \in {m \in DOMAIN dir.files :
                        ~(~dir.files[m].isDir /\ MatchesOutput(m))} |-> dir.files[n]]]

\* Api.saveResponse, lines 217-279: the directory afterwards, when the range
\* over the first record yields header.  The file is created (line 224)
\* before the record list is tested for being empty (line 240).  Writes to
\* the created file succeed.
SaveResponse(dir, data, output, header) ==
    IF ~CreateOk(dir, output) THEN dir
    ELSE IF Len(data) = 0 THEN WithFile(dir, output, <<>>)
    ELSE WithFile(dir, output, CsvRows(data, header))

\* The lines saveResponse logs.
SaveLog(dir, data, output) ==
    IF ~CreateOk(dir, output) THEN {<<"#Error: creating file:">>}
    ELSE IF Len(data) = 0 THEN {<<"#Warn: no data to write">>}
    ELSE {<<"received records:", output>>}

\* What saveResponse does to the file, in the order of the code: os.Create
\* (line 224), the writes (lines 250-274), writer.Flush (line 277) and the
\* deferred csvFile.Close (lines 229-235), which runs as saveResponse returns.
SaveEventsCloseLeftToCaller(dir, data, output) ==
    IF ~CreateOk(dir, output) THEN <<>>
    ELSE IF Len(data) = 0 THEN << <<"create", output>> >>
    ELSE << <<"create", output>>, <<"write", output>>, <<"flush", output>> >>

SaveEvents(dir, data, output) ==
    IF ~CreateOk(dir, output) THEN <<>>
    ELSE IF Len(data) = 0 THEN << <<"create", output>>, <<"close", output>> >>
    ELSE << <<"create", output>>, <<"write", output>>, <<"flush", output>>,
            <<"close", output>> >>

\* The orders the header can come out in (one, vacuous, for no data).
HeaderOrders(data) == IF Len(data) = 0 THEN {<<>>} ELSE KeyOrders(data[1])

(***************************************************************************)
(* The input directory.  A file is readable or not, its quoting is         *)
(* balanced or not, and rows are the records its lines split into.         *)
(***************************************************************************)
K1 == <<107, 49>>   \* "k1"
K2 == <<107, 50>>   \* "k2"
V1 == <<118, 49>>   \* "v1"
V2 == <<118, 50>>   \* "v2"
CyrCell == <<198>>  \* ZHE in Windows-1251

CsvFile(readable, quotesOk, rows) ==
    [readable |-> readable, quotesOk |-> quotesOk, rows |-> rows]

Unreadable == CsvFile(FALSE, TRUE, <<>>)
BadQuote == CsvFile(TRUE, FALSE, <<>>)
ZeroBytes == CsvFile(TRUE, TRUE, <<>>)
HeaderOnly == CsvFile(TRUE, TRUE, << <<K1, K2>> >>)
OneRow == CsvFile(TRUE, TRUE, << <<K1, K2>>, <<V1, CyrCell>> >>)
TwoRows == CsvFile(TRUE, TRUE, << <<K1, K2>>, <<V1, V2>>, <<V2, V1>> >>)
ShortRow == CsvFile(TRUE, TRUE, << <<K1, K2>>, <<V1>> >>)
LongRow == CsvFile(TRUE, TRUE, << <<K1>>, <<V1, V2>> >>)

\* The names prepareBody's directory scan takes (line 305), in the order
\* os.ReadDir lists them, and the key each is stored under (lines 312-313).
FragmentFiles == <<"input_x.csv", "input_y.csv">>
FragmentKey(name) == IF name = "input_x.csv" THEN "x" ELSE "y"

\* csv.Reader.ReadAll with the default FieldsPerRecord = 0: unbalanced
\* quoting is an error, and so is a record whose number of fields differs
\* from that of the first record.
ReadAllOk(file) ==
    /\ file.quotesOk
    /\ \A i \in 1..Len(file.rows) : Len(file.rows[i]) = Len(file.rows[1])

\* Lines 346-353: the record of one row.  record[key] is assigned for
\* i = 0, 1, ... in turn, so the last column of a repeated key stays.
RowRecord(header, row) ==
    [k \in {header[i] : i \in 1..Len(header)} |->
        LET i == CHOOSE j \in 1..Len(header) :
                    /\ header[j] = k
                    /\ \A m \in 1..Len(header) : header[m] = k => m <= j
        IN  StrVal(ConvertToUTF8(row[i]))]

\* readFileContent, lines 322-358.  status "panic": records[0] of no
\* records, or row[i] past the end of a row, is a run-time panic.
ReadFileContent(dir, fileName) ==
    IF fileName \notin DOMAIN dir.files \/ ~dir.files[fileName].readable
    THEN [status |-> "err", payload |-> <<>>, log |-> {}]
    ELSE LET file == dir.files[fileName]
             opened == {<<"Reading file:", fileName>>}
         IN  IF ~ReadAllOk(file)
             THEN [status |-> "err", payload |-> <<>>, log |-> opened]
             ELSE IF Len(file.rows) = 0
             THEN [status |-> "panic", payload |-> <<>>, log |-> opened]
             ELSE IF \E n \in 2..Len(file.rows) : Len(file.rows[n]) < Len(file.rows[1])
             THEN [status |-> "panic", payload |-> <<>>, log |-> opened]
             ELSE [status |-> "ok",
                   payload |-> [n \in 1..(Len(file.rows) - 1) |->
                                    RowRecord(file.rows[1], file.rows[n + 1])],
                   log |-> opened]

\* A request body: nothing (nil), one object, a list, or lists by key.
NilBody == [kind |-> "nil", value |-> <<>>]
Body(kind, value) == [kind |-> kind, value |-> value]

\* Lines 304-319: the directory scan from the i-th fragment name on.
RECURSIVE ScanFragments(_, _, _, _)
ScanFragments(dir, i, result, lines) ==
    IF i > Len(FragmentFiles)
    THEN [status |-> "ok", body |-> Body("fragments", result), log |-> lines]
    ELSE IF FragmentFiles[i] \notin DOMAIN dir.files
    THEN ScanFragments(dir, i + 1, result, lines)
    ELSE LET r == ReadFileContent(dir, FragmentFiles[i]) IN
         IF r.status # "ok"
         THEN [status |-> r.status, body |-> NilBody, log |-> lines \cup r.log]
         ELSE ScanFragments(dir, i + 1,
                [k \in DOMAIN result \cup {FragmentKey(FragmentFiles[i])} |->
                    IF k = FragmentKey(FragmentFiles[i]) THEN r.payload ELSE result[k]],
                lines \cup r.log)

\* prepareBody, lines 281-320.
PrepareBody(dir) ==
    LET obj == ReadFileContent(dir, objectFile)
        inp == ReadFileContent(dir, inputFile)
    IN  IF obj.status = "panic"
        THEN [status |-> "panic", body |-> NilBody, log |-> obj.log]
        ELSE IF obj.status = "ok"
        THEN IF Len(obj.payload) > 0
             THEN [status |-> "ok", body |-> Body("object", obj.payload[1]), log |-> obj.log]
             ELSE [status |-> "err", body |-> NilBody, log |-> obj.log]
        ELSE IF inp.status = "panic"
        THEN [status |-> "panic", body |-> NilBody, log |-> obj.log \cup inp.log]
        ELSE IF inp.status = "ok"
        THEN [status |-> "ok", body |-> Body("array", inp.payload),
              log |-> obj.log \cup inp.log]
        ELSE IF ~ReadDirOk(dir.path, dir)
        THEN [status |-> "err", body |-> NilBody, log |-> obj.log \cup inp.log]
        ELSE ScanFragments(dir, 1, [k \in {} |-> <<>>], obj.log \cup inp.log)

(***************************************************************************)
(* What a request can come back with.                                      *)
(*   kind      "transportError": client.Do fails;                          *)
(*             "readError": io.ReadAll of the body fails;                  *)
(*             "body": the body was read                                   *)
(*   syntax    "value": the body starts with a JSON value that decodes     *)
(*             into ApiResponse; "garbage": it does not                    *)
(*   trailing  other bytes follow that first value                         *)
(***************************************************************************)
\* The data of a body is JSON text: each record the sequence of its
\* <<key, value>> members in the order they are written.
OneRecord == << <<"a", NumVal(<<49>>)>> >>
DataChoices == {<<>>, <<OneRecord>>}
Messages == {"", "bad token"}

Envelope(success, message, data, page, total, trailing) ==
    [kind |-> "body", syntax |-> "value", trailing |-> trailing, success |-> success,
     message |-> message, data |-> data, page |-> page, total |-> total]

Failure(kind, syntax) ==
    [kind |-> kind, syntax |-> syntax, trailing |-> FALSE, success |-> FALSE,
     message |-> "", data |-> <<>>, page |-> 0, total |-> 0]

Responses ==
    {Failure("transportError", "garbage"), Failure("readError", "garbage"),
     Failure("body", "garbage")}
    \cup {Envelope(TRUE, "", d, p, t, tr) :
            d \in DataChoices, p \in 1..MaxPage, t \in 1..MaxPage, tr \in BOOLEAN}
    \cup {Envelope(FALSE, m, <<>>, 1, t, tr) :
            m \in Messages, t \in {1, 2}, tr \in BOOLEAN}

\* A server that answers with one page of the given data.
OnePage(data) == Envelope(TRUE, "", data, 1, 1, FALSE)

AnyServer == [kind |-> "any", data |-> <<>>]
OnePageServer(data) == [kind |-> "one", data |-> data]

\* The answers a server can give to a request.
Answers(srv) == IF srv.kind = "any" THEN Responses ELSE {OnePage(srv.data)}

\* The whole body is one JSON document.
ValidJSON(resp) == resp.kind = "body" /\ resp.syntax = "value" /\ ~resp.trailing

\* json.Decoder.Decode, lines 179-185: decodes the first JSON value of the
\* body and does not look at what follows it.
DecodeOk(resp) == resp.syntax = "value"

\* Decoding a JSON object into a map[string]interface{}: the members by
\* key, the last one of a repeated key; their order is not kept.
DecodeRecord(members) ==
    [k \in {members[i][1] : i \in 1..Len(members)} |->
        LET i == CHOOSE j \in 1..Len(members) :
                    /\ members[j][1] = k
                    /\ \A m \in 1..Len(members) : members[m][1] = k => m <= j
        IN  members[i][2]]

\* The Data field of the decoded ApiResponse.
DecodeData(resp) == [n \in 1..Len(resp.data) |-> DecodeRecord(resp.data[n])]

\* A success check that takes an envelope without a message for a success.
SucceededUnlessMessage(resp) == resp.success \/ resp.message = ""

\* Line 187.
Succeeded(resp) == resp.success

\* A continuation test that is off by one.
HasNextPageInclusive(resp) == resp.total >= resp.page

\* Line 199.
HasNextPage(resp) == resp.total > resp.page

\* Lines 146-148: the Authorization header, "" when it is not set.
BearerHeader(token) == IF token # "" THEN "Bearer " \o token ELSE ""

\* Lines 140-148: the request doHttpMethod sends.
JsonRequest(a, c) ==
    [method |-> c.method, url |-> a.url, contentType |-> "application/json",
     authorization |-> BearerHeader(a.token), body |-> c.body]

NoRequest ==
    [method |-> "", url |-> [valid |-> FALSE, query |-> <<>>], contentType |-> "",
     authorization |-> "", body |-> [kind |-> "none", value |-> <<>>]]

\* client.Do, lines 150-155 and 464-469: the n-th request goes out and
\* client.Do returns with its response or with an error.
RequestEvents(n, resp) ==
    IF resp.kind = "transportError"
    THEN << <<"request", ToString(n)>>, <<"failed", ToString(n)>> >>
    ELSE << <<"request", ToString(n)>>, <<"response", ToString(n)>> >>

\* Lines 455-462: the request doMultipartPost sends.
MultipartRequest(a, boundary) ==
    [method |-> "POST", url |-> a.url, contentType |-> "multipart/form-data",
     authorization |-> "", body |-> Body("multipart", <<boundary>>)]

(***************************************************************************)
(* State.  The debug flag of Api only adds log lines and is left out.      *)
(***************************************************************************)
VARIABLES
    flags,      \* the command line: method (upper-cased), boundary
    api,        \* the Api struct: url, inputPath, outputPath, token
    outDir,     \* the output directory
    inputDir,   \* the input directory
    server,     \* the server: any answer to each request, or one page of data
    pc,         \* "start", "dispatch", "call", "done", "panic"
    call,       \* the arguments of the pending doHttpMethod call
    nreq,       \* number of requests sent
    lastReq,    \* the last request sent
    lastResp,   \* what it came back with
    log,        \* the lines written to errors.log
    paged,      \* 0: nothing answered yet; N: request k was answered with
                \*    success and (page k, totalPage N) so far; -1: otherwise
    conv,       \* a byte string and what the sanitizer has made of it
    trace       \* the requests, answers and file operations so far, in order

vars == <<flags, api, outDir, inputDir, server, pc, call, nreq, lastReq, lastResp, log, paged, conv, trace>>

Urls == {[valid |-> FALSE, query |-> <<>>],
         [valid |-> TRUE, query |-> <<>>],
         [valid |-> TRUE, query |-> << <<"z", "1">>, <<"page", "9">> >>]}

\* Output directories: the working directory (empty path) or out/, fresh or
\* after an earlier run.  The directory exists: main has just created
\* errors.log in it (lines 98-104).
OutDirs ==
    {[path |-> p, dir |-> [exists |-> TRUE, files |-> f]] :
        p \in {"", "out/"}, f \in {NoEntries, UsedEntries}}

\* Input directories of a run of the whole program.
EmptyIn == [path |-> "in/", exists |-> TRUE, files |-> [n \in {} |-> OneRow]]
UploadIn ==
    [path |-> "in/", exists |-> TRUE,
     files |-> [n \in {objectFile, "upload.bin"} |-> OneRow]]
HereIn == [path |-> "", exists |-> TRUE, files |-> [n \in {} |-> OneRow]]

NoConv == [input |-> <<>>, once |-> <<>>, twice |-> <<>>, applied |-> 0]

NoCall == [method |-> "", body |-> [kind |-> "none", value |-> <<>>], output |-> ""]
NoResponse == Failure("none", "garbage")

Init ==
    /\ flags \in [method : {"GET", "POST"}, boundary : {"", "upload.bin"}]
    /\ inputDir \in (IF flags.method = "GET" THEN {EmptyIn} ELSE {EmptyIn, UploadIn, HereIn})
    /\ \E u \in Urls, o \in OutDirs, t \in {"", "secret"} :
        /\ api = [url |-> u, inputPath |-> inputDir.path, outputPath |-> o.path,
                  token |-> t]
        /\ outDir = o.dir
    /\ server = AnyServer
    /\ pc = "start"
    /\ call = NoCall
    /\ nreq = 0
    /\ lastReq = NoRequest
    /\ lastResp = NoResponse
    /\ log = {}
    /\ paged = 0
    /\ conv = NoConv
    /\ trace = <<>>

\* Line 119: the multipart upload is chosen.
IsMultipart(f) == f.boundary # "" /\ f.method = "POST"

\* main, lines 98-115: the log file is open; api.removeFiles().
MainRemoveFiles ==
    /\ pc = "start"
    /\ outDir' = RemoveFiles(api.outputPath, outDir)
    /\ log' = log \cup (IF ReadDirOk(api.outputPath, outDir) THEN {}
                        ELSE {<<"reading directory:">>})
    /\ pc' = "dispatch"
    /\ UNCHANGED <<flags, api, inputDir, server, call, nreq, lastReq, lastResp, paged, conv, trace>>

\* main, lines 124-133, for GET: no body is prepared.
MainGet ==
    /\ pc = "dispatch"
    /\ ~IsMultipart(flags)
    /\ flags.method = "GET"
    /\ call' = [method |-> flags.method, body |-> NilBody, output |-> outputFile]
    /\ pc' = "call"
    /\ UNCHANGED <<flags, api, outDir, inputDir, server, nreq, lastReq, lastResp, log, paged, conv, trace>>

\* main, lines 124-133, for another method: the body is prepared.
MainPrepareBody ==
    /\ pc = "dispatch"
    /\ ~IsMultipart(flags)
    /\ flags.method # "GET"
    /\ LET r == PrepareBody(inputDir) IN
        /\ log' = log \cup r.log
                    \cup (IF r.status = "err" THEN {<<"#Error: preparing body:">>} ELSE {})
        /\ pc' = IF r.status = "ok" THEN "call"
                 ELSE IF r.status = "err" THEN "done" ELSE "panic"
        /\ call' = IF r.status = "ok"
                   THEN [method |-> flags.method, body |-> r.body, output |-> outputFile]
                   ELSE call
    /\ UNCHANGED <<flags, api, outDir, inputDir, server, nreq, lastReq, lastResp, paged, conv, trace>>

\* Api.doMultipartPost, lines 415-492, called from line 120.  The response
\* is not decoded; only its status is logged (lines 479-481).
DoMultipartPost ==
    /\ pc = "dispatch"
    /\ IsMultipart(flags)
    /\ pc' = "done"
    /\ UNCHANGED <<flags, api, outDir, inputDir, server, call, paged, conv>>
    /\ IF flags.boundary \notin DOMAIN inputDir.files
       THEN /\ log' = log \cup {<<"#Error: opening file:">>}
            /\ UNCHANGED <<nreq, lastReq, lastResp, trace>>
       ELSE IF ~api.url.valid
       THEN /\ log' = log \cup {<<"#Error: creating request:">>}
            /\ UNCHANGED <<nreq, lastReq, lastResp, trace>>
       ELSE \E resp \in Answers(server) :
            /\ trace' = trace \o RequestEvents(nreq + 1, resp)
            /\ lastReq' = MultipartRequest(api, flags.boundary)
            /\ nreq' = nreq + 1
            /\ lastResp' = resp
            /\ log' = log \cup (IF resp.kind = "transportError"
                                 THEN {<<"#Error: making request:">>} ELSE {})

\* The history variable paged after the answer resp to request k.
Paged(old, k, resp) ==
    IF /\ resp.kind = "body" /\ resp.syntax = "value" /\ resp.success
       /\ resp.page = k
       /\ (old = 0 \/ old = resp.total)
       /\ old # -1
    THEN resp.total ELSE -1

\* Api.doHttpMethod, lines 137-215, one invocation; the recursive call of
\* line 213 is the next step of this action.
DoHttpMethod ==
    /\ pc = "call"
    /\ nreq < MaxRequests
    /\ IF ~api.url.valid
       THEN /\ log' = log \cup {<<"#Error: creating request:">>}
            /\ pc' = "done"
            /\ UNCHANGED <<flags, api, outDir, inputDir, server, call, nreq, lastReq, lastResp, paged, conv, trace>>
       ELSE \E resp \in Answers(server) :
            /\ lastReq' = JsonRequest(api, call)
            /\ nreq' = nreq + 1
            /\ lastResp' = resp
            /\ paged' = Paged(paged, nreq + 1, resp)
            /\ UNCHANGED <<flags, inputDir, server, conv>>
            /\ IF resp.kind = "transportError"
               THEN /\ log' = log \cup {<<"#Error: making request:">>}
                    /\ pc' = "done"
                    /\ trace' = trace \o RequestEvents(nreq + 1, resp)
                    /\ UNCHANGED <<api, outDir, call>>
               ELSE IF resp.kind = "readError"
               THEN /\ log' = log \cup {<<"#Error: reading response body:">>}
                    /\ pc' = "done"
                    /\ trace' = trace \o RequestEvents(nreq + 1, resp)
                    /\ UNCHANGED <<api, outDir, call>>
               ELSE IF ~DecodeOk(resp)
               THEN /\ log' = log \cup {<<"#Error: parsing JSON:">>}
                    /\ pc' = "done"
                    /\ trace' = trace \o RequestEvents(nreq + 1, resp)
                    /\ UNCHANGED <<api, outDir, call>>
               ELSE IF ~Succeeded(resp)
               THEN /\ log' = log \cup (IF resp.message # ""
                                        THEN {<<"#Error: ", resp.message>>} ELSE {})
                    /\ pc' = "done"
                    /\ trace' = trace \o RequestEvents(nreq + 1, resp)
                    /\ UNCHANGED <<api, outDir, call>>
               ELSE \E header \in HeaderOrders(DecodeData(resp)) :
                    /\ outDir' = SaveResponse(outDir, DecodeData(resp), call.output, header)
                    /\ trace' = trace \o RequestEvents(nreq + 1, resp)
                                      \o SaveEvents(outDir, DecodeData(resp), call.output)
                    /\ IF HasNextPage(resp)
                       THEN /\ log' = log \cup SaveLog(outDir, resp.data, call.output)
                                          \cup {<<"fetching page">>}
                            /\ api' = [api EXCEPT !.url = NextPageUrl(api.url, resp.page + 1)]
                            /\ call' = [method |-> "GET", body |-> NilBody,
                                        output |-> PageFile(resp.page + 1)]
                            /\ pc' = "call"
                       ELSE /\ log' = log \cup SaveLog(outDir, resp.data, call.output)
                            /\ pc' = "done"
                            /\ UNCHANGED <<api, call>>

Next == MainRemoveFiles \/ MainGet \/ MainPrepareBody \/ DoMultipartPost \/ DoHttpMethod

Spec == Init /\ [][Next]_vars
(***************************************************************************)
(* Properties of the whole run (specification Spec).                       *)
(***************************************************************************)
\* The files this run has created, and the files of an n-page result.
FreshFiles == {n \in DOMAIN outDir.files : outDir.files[n].fresh}
PagedFiles(n) == {outputFile} \cup {PageFile(k) : k \in 2..n}

\* A step of doHttpMethod that sent its request.
JsonStep == nreq' = nreq + 1 /\ lastReq'.contentType = "application/json"

\* C1: when the k-th request is answered with success and (page k,
\* totalPage N), doHttpMethod sends exactly N requests, creates exactly
\* output.csv and output_k.csv for k = 2..N, and then stops: at every moment
\* of such a run at most N requests were sent, the files created are those of
\* the pages fetched so far, and the run has ended exactly when the N-th
\* request was answered.
C1_PagedRunEndsAfterNPages ==
    paged >= 1 =>
        /\ nreq <= paged
        /\ ((pc = "done") <=> (nreq = paged))
        /\ FreshFiles = PagedFiles(nreq)

C1_ThreePagesFetched ==
    /\ pc = "done" /\ paged = 3 /\ nreq = 3
    /\ FreshFiles = {"output.csv", "output_2.csv", "output_3.csv"}

\* The last answer is an envelope that decoded and reports success = false.
Refused(resp) == resp.kind = "body" /\ DecodeOk(resp) /\ ~resp.success

\* C2: a step whose response decodes to an envelope with success = false
\* (on any page, whatever its page metadata) leaves the output directory as
\* it was, logs the message when it is non-empty and ends the run; no request
\* follows the end of a run.
C2_RefusalWritesNothingAndStops ==
    [][/\ (JsonStep /\ Refused(lastResp')) =>
            /\ outDir' = outDir
            /\ pc' = "done"
            /\ (lastResp'.message # "" => <<"#Error: ", lastResp'.message>> \in log')
       /\ (pc = "done" => nreq' = nreq)]_vars

C2_RefusedOnSecondPage ==
    /\ pc = "done" /\ nreq = 2
    /\ Refused(lastResp) /\ lastResp.total > lastResp.page
    /\ lastResp.message = "bad token"
    /\ <<"#Error: ", "bad token">> \in log
    /\ FreshFiles = {outputFile}

\* C3: a step whose request fails in transport, or whose body cannot be read
\* or is not valid JSON, ends the run and leaves the output directory as it
\* was (no file for that page, earlier files in place, no later request).
C3_BadResponseStops ==
    [][(JsonStep /\ ~ValidJSON(lastResp')) =>
            (outDir' = outDir /\ pc' = "done")]_vars
\* The last answer is an envelope that decoded and reports success.
Accepted(resp) == resp.kind = "body" /\ DecodeOk(resp) /\ resp.success

\* C5: when a successful response carries no records, saveResponse creates
\* no file: a destination that did not exist before the step does not exist
\* after it.
C5_NoFileForEmptyData ==
    [][(/\ JsonStep /\ Accepted(lastResp') /\ Len(lastResp'.data) = 0
        /\ call.output \notin DOMAIN outDir.files)
            => call.output \notin DOMAIN outDir'.files]_vars

\* C7: every request sent carries Authorization: Bearer <token> exactly when
\* a token is configured, the multipart upload included.
C7_EveryRequestCarriesToken ==
    nreq >= 1 =>
        /\ (api.token # "" => lastReq.authorization = "Bearer " \o api.token)
        /\ (api.token = "" => lastReq.authorization = "")

\* C8: once a request has been sent, every regular file of the output
\* directory named output*.csv was written by this run.
C8_OldOutputFilesAreGone ==
    nreq >= 1 =>
        \A n \in DOMAIN outDir.files :
            (MatchesOutput(n) /\ ~outDir.files[n].isDir) => outDir.files[n].fresh

(***************************************************************************)
(* Body composition (specification SpecBody): a POST run without           *)
(* -boundary over the input directories below, against a server that       *)
(* answers with one page.                                                  *)
(***************************************************************************)
\* A directory entry that is there or not: opt is {} or {file}.
Entry(name, opt) == [n \in (IF opt = {} THEN {} ELSE {name}) |-> CHOOSE f \in opt : TRUE]

ObjectOptions == {{}, {Unreadable}, {BadQuote}, {ZeroBytes}, {HeaderOnly}, {OneRow}, {ShortRow}}
InputOptions == {{}, {BadQuote}, {TwoRows}, {LongRow}}
FragmentXOptions == {{}, {BadQuote}, {OneRow}}
FragmentYOptions == {{}, {TwoRows}}

InputDirs ==
    {[path |-> p, exists |-> TRUE,
      files |-> Entry(objectFile, o) @@ Entry(inputFile, i)
                @@ Entry("input_x.csv", x) @@ Entry("input_y.csv", y)] :
        p \in {"", "in/"}, o \in ObjectOptions, i \in InputOptions,
        x \in FragmentXOptions, y \in FragmentYOptions}
    \cup {[path |-> "in/", exists |-> FALSE, files |-> [n \in {} |-> OneRow]]}

InitBody ==
    /\ flags \in [method : {"POST", "PUT"}, boundary : {""}]
    /\ inputDir \in InputDirs
    /\ api = [url |-> [valid |-> TRUE, query |-> <<>>], inputPath |-> inputDir.path,
              outputPath |-> "out/", token |-> "secret"]
    /\ outDir = [exists |-> TRUE, files |-> NoEntries]
    /\ server = OnePageServer(<<OneRecord>>)
    /\ pc = "start"
    /\ call = NoCall
    /\ nreq = 0
    /\ lastReq = NoRequest
    /\ lastResp = NoResponse
    /\ log = {}
    /\ paged = 0
    /\ conv = NoConv
    /\ trace = <<>>

NextBody == MainRemoveFiles \/ MainPrepareBody \/ DoHttpMethod

SpecBody == InitBody /\ [][NextBody]_vars

\* The input file is there and cannot be read as CSV.
Broken(name) ==
    /\ name \in DOMAIN inputDir.files
    /\ ~(inputDir.files[name].readable /\ ReadAllOk(inputDir.files[name]))

Present(name) == name \in DOMAIN inputDir.files
Opened(name) == <<"Reading file:", name>> \in log
Composed == pc \in {"call", "done", "panic"}

\* The object a well-formed object.csv stands for: its first data row.
FirstObject(file) == RowRecord(file.rows[1], file.rows[2])

\* C4: when object.csv and input.csv both exist, body composition never
\* reads input.csv or an input_* fragment, and the body it produces is the
\* object of the first data row of object.csv.
C4_ObjectFileWins ==
    (Composed /\ Present(objectFile) /\ Present(inputFile)) =>
        /\ ~Opened(inputFile)
        /\ \A i \in 1..Len(FragmentFiles) : ~Opened(FragmentFiles[i])
        /\ (nreq >= 1 =>
                lastReq.body = Body("object", FirstObject(inputDir.files[objectFile])))

\* C6: when the input file of the mode in turn (object.csv; without it
\* input.csv; without both a fragment) exists and is unreadable or malformed,
\* the run ends before any request is sent.
C6_BrokenInputSendsNothing ==
    (\/ Broken(objectFile)
     \/ (~Present(objectFile) /\ Broken(inputFile))
     \/ (~Present(objectFile) /\ ~Present(inputFile)
            /\ \E i \in 1..Len(FragmentFiles) : Broken(FragmentFiles[i])))
        => nreq = 0
(***************************************************************************)
(* The response materializer (specification SpecSave): a GET run against   *)
(* a server that answers with one page of the record lists below.          *)
(***************************************************************************)
Strings(n) == UNION {[1..k -> Alphabet] : k \in 0..n}

\* JSON objects over the keys a and b, in either order of writing.
MemberOrders == {<<>>, <<"a">>, <<"b">>, <<"a", "b">>, <<"b", "a">>}
MemberValues == {NumVal(<<49>>), NullVal}
JsonRecords ==
    UNION {{[i \in 1..Len(ks) |-> <<ks[i], vs[i]>>] : vs \in [1..Len(ks) -> MemberValues]} :
            ks \in MemberOrders}

RecordLists == UNION {[1..n -> JsonRecords] : n \in 1..MaxRecords}
ValueLists == {<< << <<"a", StrVal(str)>> >> >> : str \in Strings(MaxLen)}

InitSave ==
    /\ flags = [method |-> "GET", boundary |-> ""]
    /\ inputDir = EmptyIn
    /\ api = [url |-> [valid |-> TRUE, query |-> <<>>], inputPath |-> inputDir.path,
              outputPath |-> "out/", token |-> ""]
    /\ outDir = [exists |-> TRUE, files |-> UsedEntries]
    /\ server \in {OnePageServer(d) : d \in RecordLists \cup ValueLists}
    /\ pc = "start"
    /\ call = NoCall
    /\ nreq = 0
    /\ lastReq = NoRequest
    /\ lastResp = NoResponse
    /\ log = {}
    /\ paged = 0
    /\ conv = NoConv
    /\ trace = <<>>

NextSave == MainRemoveFiles \/ MainGet \/ DoHttpMethod

SpecSave == InitSave /\ [][NextSave]_vars

\* The page has been saved, and the rows of output.csv.
Saved == pc = "done" /\ nreq = 1 /\ Accepted(lastResp) /\ Len(lastResp.data) >= 1
SavedRows == outDir.files[outputFile].rows

\* The keys of a JSON object in the order they are written.
MemberKeys(members) == [i \in 1..Len(members) |-> members[i][1]]

\* C9: the header row is the field order of the first record of the
\* response; every data row has one cell per header field, in header order,
\* a field the record lacks being written as the absent value.
C9_HeaderIsFirstRecordOrder ==
    Saved =>
        /\ SavedRows[1] = MemberKeys(lastResp.data[1])
        /\ Len(SavedRows) = Len(lastResp.data) + 1
        /\ \A n \in 1..Len(lastResp.data) :
            /\ Len(SavedRows[n + 1]) = Len(SavedRows[1])
            /\ \A i \in 1..Len(SavedRows[1]) :
                LET rec == DecodeRecord(lastResp.data[n])
                    key == SavedRows[1][i]
                IN  SavedRows[n + 1][i] =
                        IF key \in DOMAIN rec THEN Cell(rec[key]) ELSE NilText

\* The value of the one-member record the server answered with.
SentValue == lastResp.data[1][1][2]
InRepertoire(str) == \A i \in 1..Len(str) : Win1251Byte(str[i]) # -1
NoBlank(str) == \A i \in 1..Len(str) : str[i] \notin {SP, LF, CR}

\* output.csv read back by the tabular input reader.
ReadBack ==
    ReadFileContent(
        [path |-> "out/", exists |-> TRUE,
         files |-> [n \in {outputFile} |-> CsvFile(TRUE, TRUE, SavedRows)]],
        outputFile)

\* C10: a string value with no character outside the legacy code page,
\* written to output.csv and read back by the tabular input reader, is the
\* original value.  Stated for the values without \n, \r or space, on which
\* neither the stripping nor the whitespace collapsing has anything to do.
C10_ValueRoundTrips ==
    (/\ Saved /\ Len(lastResp.data) = 1 /\ Len(lastResp.data[1]) = 1
     /\ SentValue.kind = "string" /\ InRepertoire(SentValue.s) /\ NoBlank(SentValue.s))
        => /\ ReadBack.status = "ok"
           /\ ReadBack.payload[1]["a"].s = SentValue.s

(***************************************************************************)
(* The sanitizer on its own (specification SpecSanitize): a byte string,   *)
(* as the encoder hands it over, is sanitized once and once more.          *)
(***************************************************************************)
Tab == 9

\* The bytes the strings are drawn from: a letter, '?', space, tab, and the
\* bytes of the UTF-8 forms of U+0085 (C2 85), U+00A0 (C2 A0) and U+2000
\* (E2 80 80), which also occur on their own in Windows-1251 text.
Bytes == {LetterA, QM, SP, Tab, 194, 133, 160, 226, 128}
ByteStrings(n) == UNION {[1..k -> Bytes] : k \in 0..n}

InitSanitize ==
    /\ flags = [method |-> "GET", boundary |-> ""]
    /\ inputDir = EmptyIn
    /\ api = [url |-> [valid |-> TRUE, query |-> <<>>], inputPath |-> inputDir.path,
              outputPath |-> "out/", token |-> ""]
    /\ outDir = [exists |-> TRUE, files |-> NoEntries]
    /\ server = AnyServer
    /\ pc = "start"
    /\ call = NoCall
    /\ nreq = 0
    /\ lastReq = NoRequest
    /\ lastResp = NoResponse
    /\ log = {}
    /\ paged = 0
    /\ conv \in {[NoConv EXCEPT !.input = b] : b \in ByteStrings(MaxLen)}
    /\ trace = <<>>

\* Lines 388-391 applied to the string, then to their own result.
ApplySanitize ==
    /\ conv.applied < 2
    /\ conv' = IF conv.applied = 0
               THEN [conv EXCEPT !.once = Sanitize(conv.input), !.applied = 1]
               ELSE [conv EXCEPT !.twice = Sanitize(conv.once), !.applied = 2]
    /\ UNCHANGED <<flags, api, outDir, inputDir, server, pc, call, nreq, lastReq,
                   lastResp, log, paged, trace>>

NextSanitize == ApplySanitize

SpecSanitize == InitSanitize /\ [][NextSanitize]_vars

\* The code points of a byte string ranged over as UTF-8.
RECURSIVE RunesFrom(_, _)
RunesFrom(s, i) ==
    IF i > Len(s) THEN <<>>
    ELSE LET d == DecodeRune(s, i) IN <<d.r>> \o RunesFrom(s, i + d.w)

\* No '?', no two whitespace characters in a row, none at either end; the
\* whitespace characters are those of unicode.IsSpace.
Clean(s) ==
    LET runes == RunesFrom(s, 1) IN
    /\ \A i \in 1..Len(s) : s[i] # QM
    /\ \A i \in 1..Len(runes) - 1 : ~(IsSpace(runes[i]) /\ IsSpace(runes[i + 1]))
    /\ runes # <<>> => ~IsSpace(runes[1]) /\ ~IsSpace(runes[Len(runes)])

\* C11: the sanitizer is idempotent, sanitize(sanitize(s)) = sanitize(s), and
\* its result holds no '?', no two consecutive whitespace characters and no
\* leading or trailing whitespace.
C11_SanitizeIdempotentAndClean ==
    /\ conv.applied >= 1 => Clean(conv.once)
    /\ conv.applied = 2 => conv.twice = conv.once

\* A string with a '?' has been sanitized twice and kept a space inside.
C11_PlaceholderBecameInnerSpace ==
    /\ conv.applied = 2
    /\ \E i \in 1..Len(conv.input) : conv.input[i] = QM
    /\ \E i \in 1..Len(conv.once) : conv.once[i] = SP

(***************************************************************************)
(* Pagination (specification SpecPages): a GET or a POST with a body to a  *)
(* URL with a query, each request answered in any way.                     *)
(***************************************************************************)
PagedUrls ==
    {[valid |-> TRUE, query |-> q] :
        q \in {<<>>,
               << <<"z", "1">>, <<"page", "9">> >>,
               << <<"page", "1">>, <<"a", "x">>, <<"page", "2">> >>,
               << <<"a", "1;2">>, <<"page", "1">> >>}}

ObjectIn == [path |-> "in/", exists |-> TRUE, files |-> [n \in {objectFile} |-> OneRow]]

InitPages ==
    /\ flags \in [method : {"GET", "POST"}, boundary : {""}]
    /\ inputDir = (IF flags.method = "GET" THEN EmptyIn ELSE ObjectIn)
    /\ \E u \in PagedUrls :
        api = [url |-> u, inputPath |-> inputDir.path, outputPath |-> "out/",
               token |-> "secret"]
    /\ outDir = [exists |-> TRUE, files |-> NoEntries]
    /\ server = AnyServer
    /\ pc = "start"
    /\ call = NoCall
    /\ nreq = 0
    /\ lastReq = NoRequest
    /\ lastResp = NoResponse
    /\ log = {}
    /\ paged = 0
    /\ conv = NoConv
    /\ trace = <<>>

NextPages == MainRemoveFiles \/ MainGet \/ MainPrepareBody \/ DoHttpMethod

SpecPages == InitPages /\ [][NextPages]_vars

\* The parameters of a query other than page, each with its values in order.
OtherParams(q) == [k \in {"a", "z"} |-> PairsOf(q, k)]

\* C12: the request that follows a successful page with totalPage > page is
\* a GET with no body; its URL has the one page parameter page+1 and every
\* other parameter as in the previous URL; the token and the directories
\* are the same; and its result goes to output_<page+1>.csv.
C12_NextPageRequest ==
    [][(JsonStep /\ nreq >= 1) =>
        /\ Accepted(lastResp) /\ HasNextPage(lastResp)
        /\ lastReq'.method = "GET"
        /\ lastReq'.body = NilBody
        /\ lastReq'.url.valid = lastReq.url.valid
        /\ PairsOf(lastReq'.url.query, "page")
                = << <<"page", ToString(lastResp.page + 1)>> >>
        /\ OtherParams(lastReq'.url.query) = OtherParams(lastReq.url.query)
        /\ lastReq'.authorization = lastReq.authorization
        /\ api'.inputPath = api.inputPath /\ api'.outputPath = api.outputPath
        /\ call.output = PageFile(lastResp.page + 1)
        /\ (Accepted(lastResp') /\ lastResp'.data # <<>>)
                => /\ call.output \in DOMAIN outDir'.files
                   /\ outDir'.files[call.output].fresh
    ]_vars

\* The events of a kind before position j of the trace.
Before(j, kinds) == {i \in 1..(j - 1) : trace[i][1] \in kinds}

\* The event at position i is followed, before position j, by the event e.
Then(i, j, e) == \E k \in (i + 1)..(j - 1) : trace[k] = e

Ragged(file) ==
    /\ file.readable /\ file.quotesOk
    /\ \E n \in 2..Len(file.rows) : Len(file.rows[n]) # Len(file.rows[1])

\* The records of a file zipped against the header as far as both reach.
ZippedRecord(header, row) ==
    LET m == IF Len(row) < Len(header) THEN Len(row) ELSE Len(header) IN
    [k \in {header[i] : i \in 1..m} |->
        StrVal(ConvertToUTF8(row[CHOOSE i \in 1..m : header[i] = k]))]

ZippedRecords(file) ==
    [n \in 1..(Len(file.rows) - 1) |-> ZippedRecord(file.rows[1], file.rows[n + 1])]

\* C14: a file whose data rows differ in width from the header is read
\* without failure or crash into one record per data row, a short row
\* leaving the trailing fields unset and a long row losing its extra cells;
\* seen in the body composed from object.csv, or from input.csv when there
\* is no object.csv.
C14_RaggedRowsAreRead ==
    /\ (Composed /\ Present(objectFile) /\ Ragged(inputDir.files[objectFile]))
            => /\ pc # "panic"
               /\ call.body = Body("object", ZippedRecords(inputDir.files[objectFile])[1])
    /\ (Composed /\ ~Present(objectFile) /\ Present(inputFile)
            /\ Ragged(inputDir.files[inputFile]))
            => /\ pc # "panic"
               /\ call.body = Body("array", ZippedRecords(inputDir.files[inputFile]))

\* A readable, well-quoted file with no data row: a header only, or nothing.
NoDataRows(file) == file.readable /\ file.quotesOk /\ Len(file.rows) <= 1

\* C15: a body is made of the first record of object.csv only when the file
\* is there and has a data row; an object.csv with a header only ends body
\* composition with the empty-input error and no request; a zero-byte
\* object.csv lets it go on to the next input mode; neither crashes.
C15_EmptyObjectFileIsHandled ==
    /\ (Composed /\ call.body.kind = "object")
            => /\ Present(objectFile)
               /\ Len(inputDir.files[objectFile].rows) >= 2
    /\ (Composed /\ Present(objectFile) /\ NoDataRows(inputDir.files[objectFile]))
            => /\ pc # "panic"
               /\ call.body.kind # "object"
               /\ Len(inputDir.files[objectFile].rows) = 1
                    => /\ pc = "done" /\ nreq = 0
                       /\ <<"#Error: preparing body:">> \in log
                       /\ ~Opened(inputFile)
=============================================================================
